---- MODULE Spec2Model ----
(***************************************************************************)
(* Model of the backup pipeline of final_backup.py (allocate a fresh       *)
(* backup directory, copy, optionally verify and delete the originals,     *)
(* optionally prune emptied directories) running against a small           *)
(* filesystem.  A path is a sequence of names; a file's content is a       *)
(* sequence of bytes.                                                      *)
(***************************************************************************)
EXTENDS Integers, Sequences, FiniteSets, TLC

VARIABLES
    dirs,        \* filesystem: set of paths that are directories
    files,       \* filesystem: function path -> content (regular files)
    now,         \* wall clock, the second within the current minute
    runsLeft,    \* how many more times the user invokes the script
    tampers,     \* external modifications made so far
    base_dir,    \* directory the script lives in (the source root)
    args,        \* parsed command line of the current run
    status,      \* "idle" | "running" | "done" | "crashed" | "killed"
    pc,          \* position of the current run inside main()
    backup_dir,  \* backup directory of the current run (<<>> before allocation)
    i,           \* counter of the numbered fallback
    exclude,     \* exclude set of the current run
    walkStack,   \* os.walk: directories still to be listed
    curRoot,     \* directory whose files are being copied
    pending,     \* names still to be handled in the current directory
    copied,      \* copied_pairs
    di,          \* index of the next record / directory in the deletion phase
    deleted,     \* delete_backed_files: deleted
    failed,      \* delete_backed_files: failed
    pruneList,   \* directories to consider for removal, deepest first
    resp,        \* raw answer typed at the confirmation prompt
    dirs0,       \* history: directories at the start of the run
    files0,      \* history: files at the start of the run
    unlinked,    \* history: paths the run has unlinked
    pruned,      \* history: directories the run has removed
    verified,    \* history: records for which verify_pair returned True
    processed,   \* history: records the deletion loop has handled
    lastVerify,  \* history: the last call of verify_pair and its result
    allocs,      \* history: every allocation, over all runs
    tampered,    \* history: paths another program has touched during the run
    fatal,       \* history: the fatal fault the run has met ("none" if none)
    rmdirFailed  \* history: directories whose removal raised during pruning

vars == <<dirs, files, now, runsLeft, tampers, base_dir, args, status, pc,
          backup_dir, i, exclude, walkStack, curRoot, pending, copied, di,
          deleted, failed, pruneList, resp, dirs0, files0, unlinked, pruned,
          verified, processed, lastVerify, allocs, tampered, fatal,
          rmdirFailed>>

(***************************************************************************)
(* Bounds of the model.                                                    *)
(***************************************************************************)
MaxClock  == 1   \* the clock runs over seconds 0..MaxClock
MaxProbe  == 3   \* the numbered fallback is followed up to this index
MaxTamper == 1   \* external modifications per behaviour
MaxRuns   == 3   \* invocations of the script in the repeated-run specification

\* chunk_size of sha256_of_file
ChunkSize == 8192

script_name == "final_backup.py"
base_name   == "backup"

NoPath == <<>>

Contents == {<<1>>, <<1, 2>>, <<2, 1>>}

(***************************************************************************)
(* Paths and the filesystem.                                               *)
(***************************************************************************)
Name(p) == p[Len(p)]

Parent(p) == SubSeq(p, 1, Len(p) - 1)

IsPrefix(d, p) == Len(d) <= Len(p) /\ SubSeq(p, 1, Len(d)) = d

Under(d, p) == Len(d) < Len(p) /\ IsPrefix(d, p)

relative_to(p, d) == SubSeq(p, Len(d) + 1, Len(p))

Parts(p) == {p[k] : k \in 1..Len(p)}

Exists(ds, fs, p) == p \in ds \/ p \in DOMAIN fs

ChildNames(ds, fs, d) ==
    {Name(p) : p \in {q \in ds \cup DOMAIN fs : Len(q) = Len(d) + 1 /\ IsPrefix(d, q)}}

RECURSIVE SetToSeq(_)
SetToSeq(S) ==
    IF S = {} THEN <<>>
    ELSE LET x == CHOOSE y \in S : TRUE IN <<x>> \o SetToSeq(S \ {x})

Range(s) == {s[k] : k \in 1..Len(s)}

\* every prefix of p longer than d, as a set of directories (mkdir parents=True)
WithParents(d, p) == {SubSeq(p, 1, k) : k \in (Len(d) + 1)..Len(p)}

WriteFile(fs, p, c) == [q \in DOMAIN fs \cup {p} |-> IF q = p THEN c ELSE fs[q]]

RemoveFile(fs, p) == [q \in DOMAIN fs \ {p} |-> fs[q]]

(***************************************************************************)
(* Pure functions of final_backup.py.                                      *)
(***************************************************************************)
Min(a, b) == IF a <= b THEN a ELSE b

\* h.update(chunk): the digest state absorbs the chunk byte by byte.  The
\* digest is collision free on the contents of the model.
RECURSIVE HashUpdate(_, _)
HashUpdate(h, chunk) ==
    IF chunk = <<>> THEN h
    ELSE HashUpdate(h * 257 + Head(chunk) + 1, Tail(chunk))

RECURSIVE ReadChunks(_, _)
ReadChunks(h, rest) ==
    IF rest = <<>> THEN h
    ELSE LET n == Min(ChunkSize, Len(rest))
         IN  ReadChunks(HashUpdate(h, SubSeq(rest, 1, n)),
                        SubSeq(rest, n + 1, Len(rest)))

sha256_of_file(fs, path) == ReadChunks(0, fs[path])

st_size(fs, path) == Len(fs[path])

\* a verification that never hashes
verify_pair_size_only(ds, fs, src, dst, use_hash, err) ==
    IF ~Exists(ds, fs, dst) \/ ~Exists(ds, fs, src) THEN FALSE
    ELSE IF err = "stat" THEN FALSE
    ELSE st_size(fs, src) = st_size(fs, dst)

\* err is the I/O fault met by this call: "none", "stat" (stat() raises) or
\* "read" (opening or reading a file raises).  Every exception is caught and
\* turned into False.
verify_pair(ds, fs, src, dst, use_hash, err) ==
    IF ~Exists(ds, fs, dst) \/ ~Exists(ds, fs, src) THEN FALSE
    ELSE IF err = "stat" THEN FALSE
    ELSE IF st_size(fs, src) # st_size(fs, dst) THEN FALSE
    ELSE IF use_hash
         THEN IF err = "read" THEN FALSE
              ELSE sha256_of_file(fs, src) = sha256_of_file(fs, dst)
    ELSE TRUE

\* strftime("%Y%m%d_%H%M%S") at second t of the minute
Pad2(n) == IF n < 10 THEN "0" \o ToString(n) ELSE ToString(n)

strftime(t) == "20251020_1015" \o Pad2(t)

TimestampCandidate(b, name, t) == b \o <<name \o "_" \o strftime(t)>>

\* a numbering that starts one too high
NumberedFromTwo(b, name, k) == b \o <<name \o "_" \o ToString(k + 1)>>

\* base_dir / f"{args.name}_{i}"
NumberedCandidate(b, name, k) == b \o <<name \o "_" \o ToString(k)>>

\* delete_backed_files: does a segment of the (absolute) source path match?
DeleteExcluded(src, exclude_names) ==
    \E part \in Parts(src) : \E n \in exclude_names : part = n

\* input(...).strip().lower(), on strings given as sequences of characters
IsSpace(c) == c \in {" ", "\t"}

RECURSIVE LStrip(_)
LStrip(s) == IF s # <<>> /\ IsSpace(Head(s)) THEN LStrip(Tail(s)) ELSE s

RECURSIVE RStrip(_)
RStrip(s) ==
    IF s # <<>> /\ IsSpace(s[Len(s)]) THEN RStrip(SubSeq(s, 1, Len(s) - 1)) ELSE s

Strip(s) == RStrip(LStrip(s))

LowerChar(c) ==
    CASE c = "Y" -> "y" [] c = "N" -> "n" [] c = "E" -> "e" [] c = "S" -> "s"
      [] OTHER -> c

Lower(s) == [k \in 1..Len(s) |-> LowerChar(s[k])]

\* the candidates in the order the set yields them, not sorted
Unsorted(S) == SetToSeq(S)

\* dirs = sorted({p.parent for p in deleted}, key=len(p.parts), reverse=True)
RECURSIVE SortDeepestFirst(_)
SortDeepestFirst(S) ==
    IF S = {} THEN <<>>
    ELSE LET d == CHOOSE x \in S : \A y \in S : Len(y) <= Len(x)
         IN  <<d>> \o SortDeepestFirst(S \ {d})

(***************************************************************************)
(* Initial filesystems.  Each is given by its directories and files below  *)
(* the source root b; the script itself is always present.                 *)
(***************************************************************************)
MkFiles(S) == [p \in {e[1] : e \in S} |-> (CHOOSE e \in S : e[1] = p)[2]]

PriorBackup == base_name \o "_" \o strftime(0)

\* the script alone
TreeScript(b) ==
    [dirs  |-> {b},
     files |-> MkFiles({<<b \o <<script_name>>, <<1>>>>})]

\* one file next to the script
TreeFlat(b) ==
    [dirs  |-> {b},
     files |-> MkFiles({<<b \o <<script_name>>, <<1>>>>,
                        <<b \o <<"a.txt">>, <<1, 2>>>>})]

\* a.txt and sub/b.txt
TreeSub(b) ==
    [dirs  |-> {b, b \o <<"sub">>},
     files |-> MkFiles({<<b \o <<script_name>>, <<1>>>>,
                        <<b \o <<"a.txt">>, <<1, 2>>>>,
                        <<b \o <<"sub", "b.txt">>, <<2, 1>>>>})]

\* sub/b.txt, the empty backup directory of a run of second 0 that got no
\* further, and an older backup directory backup_1 kept below sub
TreeOld(b) ==
    [dirs  |-> {b, b \o <<"sub">>, b \o <<PriorBackup>>,
                b \o <<"sub", "backup_1">>, b \o <<"sub", "backup_1", "in">>},
     files |-> MkFiles({<<b \o <<script_name>>, <<1>>>>,
                        <<b \o <<"sub", "b.txt">>, <<1, 2>>>>,
                        <<b \o <<"sub", "backup_1", "in", "d.txt">>, <<2, 1>>>>})]

BaseDirs == {<<"srv">>, <<"backup_1">>}

Trees(b) == {TreeScript(b), TreeFlat(b), TreeSub(b), TreeOld(b)}

Flags == [recursive : BOOLEAN, delete : BOOLEAN, hash : BOOLEAN,
          remove_empty_dirs : BOOLEAN, force : BOOLEAN]

NoArgs == [recursive |-> FALSE, delete |-> FALSE, hash |-> FALSE,
           remove_empty_dirs |-> FALSE, force |-> FALSE]

NoVerify == [src |-> NoPath, dst |-> NoPath, use_hash |-> FALSE,
             err |-> "none", same_size |-> FALSE, same_content |-> FALSE,
             both_exist |-> FALSE, result |-> FALSE]

\* answers typed at the prompt
Answers == {<<"y">>, <<" ", "Y">>, <<"n">>, <<"y", "e", "s">>, <<>>}

RunReset ==
    /\ backup_dir = NoPath
    /\ i = 0
    /\ exclude = {}
    /\ walkStack = <<>>
    /\ curRoot = NoPath
    /\ pending = <<>>
    /\ copied = <<>>
    /\ di = 0
    /\ deleted = <<>>
    /\ failed = <<>>
    /\ pruneList = <<>>
    /\ resp = <<>>
    /\ unlinked = {}
    /\ pruned = {}
    /\ verified = {}
    /\ processed = <<>>
    /\ lastVerify = NoVerify
    /\ tampered = {}
    /\ fatal = "none"
    /\ rmdirFailed = {}

\* the same values, for the start of a run
RunResetNext ==
    /\ backup_dir' = NoPath
    /\ i' = 0
    /\ exclude' = {}
    /\ walkStack' = <<>>
    /\ curRoot' = NoPath
    /\ pending' = <<>>
    /\ copied' = <<>>
    /\ di' = 0
    /\ deleted' = <<>>
    /\ failed' = <<>>
    /\ pruneList' = <<>>
    /\ resp' = <<>>
    /\ unlinked' = {}
    /\ pruned' = {}
    /\ verified' = {}
    /\ processed' = <<>>
    /\ lastVerify' = NoVerify
    /\ tampered' = {}
    /\ fatal' = "none"
    /\ rmdirFailed' = {}

InitWith(runs) ==
    /\ base_dir \in BaseDirs
    /\ \E t \in Trees(base_dir) : dirs = t.dirs /\ files = t.files
    /\ now = 0
    /\ runsLeft = runs
    /\ tampers = 0
    /\ args = NoArgs
    /\ status = "idle"
    /\ pc = "start"
    /\ dirs0 = dirs
    /\ files0 = files
    /\ allocs = <<>>
    /\ RunReset

\* one invocation of the script, from every initial filesystem
Init == InitWith(1)

\* repeated invocations
InitRuns == InitWith(MaxRuns)

(***************************************************************************)
(* The environment: the user starting the script, the clock, the process   *)
(* being terminated, and another program touching a copied file while the  *)
(* deletion phase runs.                                                    *)
(***************************************************************************)
Running(at) == status = "running" /\ pc = at

Finish(at) == status' = "done" /\ pc' = at

Crash == status' = "crashed" /\ pc' = pc

StartRun ==
    /\ status # "running"
    /\ runsLeft > 0
    /\ runsLeft' = runsLeft - 1
    /\ args' \in Flags
    /\ status' = "running"
    /\ pc' = "alloc"
    /\ dirs0' = dirs
    /\ files0' = files
    /\ RunResetNext
    /\ UNCHANGED <<dirs, files, now, tampers, base_dir, allocs>>

\* the clock is read by the allocation only, so it advances between runs
Tick ==
    /\ status # "running"
    /\ runsLeft > 0
    /\ now < MaxClock
    /\ now' = now + 1
    /\ UNCHANGED <<dirs, files, runsLeft, tampers, base_dir, args, status, pc,
                   backup_dir, i, exclude, walkStack, curRoot, pending, copied,
                   di, deleted, failed, pruneList, resp, dirs0, files0,
                   unlinked, pruned, rmdirFailed, verified, processed, lastVerify, allocs,
                   tampered, fatal>>

\* the process is terminated before the copy phase has finished
Interrupt ==
    /\ status = "running"
    /\ pc \in {"alloc", "probe", "setup", "walk", "copy", "flat"}
    /\ status' = "killed"
    /\ UNCHANGED <<dirs, files, now, runsLeft, tampers, base_dir, args, pc,
                   backup_dir, i, exclude, walkStack, curRoot, pending, copied,
                   di, deleted, failed, pruneList, resp, dirs0, files0,
                   unlinked, pruned, rmdirFailed, verified, processed, lastVerify, allocs,
                   tampered, fatal>>

\* another program removes or rewrites the source or the copy of the record
\* the loop is about to verify
Tamper ==
    /\ Running("deleting")
    /\ tampers < MaxTamper
    /\ tampers' = tampers + 1
    /\ di <= Len(copied)
    /\ \E p \in {copied[di].src, copied[di].dst} :
          /\ p \in DOMAIN files
          /\ tampered' = tampered \cup {p}
          /\ \/ files' = RemoveFile(files, p)
             \/ \E c \in Contents \ {files[p]} : files' = WriteFile(files, p, c)
    /\ UNCHANGED <<dirs, now, runsLeft, base_dir, args, status, pc,
                   backup_dir, i, exclude, walkStack, curRoot, pending, copied,
                   di, deleted, failed, pruneList, resp, dirs0, files0,
                   unlinked, pruned, rmdirFailed, verified, processed, lastVerify, allocs,
                   fatal>>

(***************************************************************************)
(* main(): allocation of the backup directory.                             *)
(***************************************************************************)
\* history of one allocation
AllocRecord(cand, fallback) ==
    [dir |-> cand, at |-> now, fallback |-> fallback,
     existed |-> Exists(dirs, files, cand), before |-> dirs]

\* a mkdir that accepts a directory that is already there (exist_ok=True)
mkdir_exist_ok(ds, fs, cand, err) ==
    IF err = "denied" THEN "denied" ELSE "ok"

\* candidate.mkdir(parents=True, exist_ok=False): "denied" raises
\* PermissionError, "exists" raises FileExistsError, "ok" creates it
mkdir_new(ds, fs, cand, err) ==
    IF err = "denied" THEN "denied"
    ELSE IF Exists(ds, fs, cand) THEN "exists" ELSE "ok"

\* an except clause that catches every OSError
except_any_os_error(outcome) ==
    IF outcome = "ok" THEN "created" ELSE "next"

\* except FileExistsError: only "exists" is caught, and leads to the next
\* candidate; any other exception leaves main
except_file_exists(outcome) ==
    CASE outcome = "ok"     -> "created"
      [] outcome = "exists" -> "next"
      [] OTHER              -> "raise"

Allocated(cand, fallback) ==
    /\ backup_dir' = cand
    /\ dirs' = dirs \cup {cand}
    /\ allocs' = Append(allocs, AllocRecord(cand, fallback))
    /\ pc' = "setup"
    /\ status' = status

\* create_unique_backup_dir and the try around it
AllocTimestamp ==
    /\ Running("alloc")
    /\ LET cand == TimestampCandidate(base_dir, base_name, now)
       IN  \E err \in {"none", "denied"} :
             LET todo == except_file_exists(mkdir_new(dirs, files, cand, err))
             IN  /\ fatal' = IF err = "denied" THEN "mkdir" ELSE fatal
                 /\ CASE todo = "raise" ->
                           Crash /\ UNCHANGED <<dirs, backup_dir, allocs, i>>
                      [] todo = "next" ->
                           /\ i' = 1
                           /\ pc' = "probe"
                           /\ UNCHANGED <<dirs, backup_dir, allocs, status>>
                      [] OTHER -> Allocated(cand, FALSE) /\ i' = i
    /\ UNCHANGED <<files, now, runsLeft, tampers, base_dir, args, exclude,
                   walkStack, curRoot, pending, copied, di, deleted, failed,
                   pruneList, resp, dirs0, files0, unlinked, pruned, rmdirFailed, verified,
                   processed, lastVerify, tampered>>

\* one turn of the while True of the numbered fallback
AllocProbe ==
    /\ Running("probe")
    /\ i <= MaxProbe
    /\ LET cand == NumberedCandidate(base_dir, base_name, i)
       IN  \E err \in {"none", "denied"} :
             LET todo == except_file_exists(mkdir_new(dirs, files, cand, err))
             IN  /\ fatal' = IF err = "denied" THEN "mkdir" ELSE fatal
                 /\ CASE todo = "raise" ->
                           Crash /\ UNCHANGED <<dirs, backup_dir, allocs, i>>
                      [] todo = "next" ->
                           /\ i' = i + 1
                           /\ UNCHANGED <<dirs, backup_dir, allocs, status, pc>>
                      [] OTHER -> Allocated(cand, TRUE) /\ i' = i
    /\ UNCHANGED <<files, now, runsLeft, tampers, base_dir, args, exclude,
                   walkStack, curRoot, pending, copied, di, deleted, failed,
                   pruneList, resp, dirs0, files0, unlinked, pruned, rmdirFailed, verified,
                   processed, lastVerify, tampered>>

(***************************************************************************)
(* main(): the copy phase.                                                 *)
(***************************************************************************)
Record(src, dst) == [src |-> src, dst |-> dst]

\* a copy that moves the file (shutil.move)
copy2_moving(fs, src, dst) == RemoveFile(WriteFile(fs, dst, fs[src]), src)

\* a copy that creates the destination but loses the last byte
copy2_truncating(fs, src, dst) ==
    WriteFile(fs, dst, SubSeq(fs[src], 1, Len(fs[src]) - 1))

\* shutil.copy2(src, dst), content only
copy2(fs, src, dst) == WriteFile(fs, dst, fs[src])

SubdirNames(ds, fs, d) == {n \in ChildNames(ds, fs, d) : d \o <<n>> \in ds}

FileNames(ds, fs, d) == {n \in ChildNames(ds, fs, d) : d \o <<n>> \in DOMAIN fs}

\* an exclude set that forgets the script
ExcludeBackupOnly(backup, script) == {Name(backup)}

\* exclude = {backup_dir.name, script_name}
ExcludeSet(backup, script) == {Name(backup), script}

\* a check of the directory's own name only
SkipRootByName(root, src_dir, exclude_names) ==
    root # src_dir /\ Name(root) \in exclude_names

\* copy_files_recursive: does a segment of root relative to src_dir match?
SkipRoot(root, src_dir, exclude_names) ==
    \E part \in Parts(relative_to(root, src_dir)) : part \in exclude_names

\* a main that always copies recursively
copy_mode_recursive(recursive) == "walk"

\* if args.recursive: copy_files_recursive, else: copy_files_non_recursive
copy_mode(recursive) == IF recursive THEN "walk" ELSE "flat"

\* the entry into the copy function the flags select
BeginCopy ==
    /\ Running("setup")
    /\ exclude' = ExcludeSet(backup_dir, script_name)
    /\ IF copy_mode(args.recursive) = "walk"
       THEN /\ walkStack' = <<base_dir>>
            /\ pending' = <<>>
            /\ pc' = "walk"
       ELSE /\ walkStack' = <<>>
            /\ pending' = SetToSeq(ChildNames(dirs, files, base_dir))
            /\ pc' = "flat"
    /\ UNCHANGED <<dirs, files, now, runsLeft, tampers, base_dir, args, status,
                   backup_dir, i, curRoot, copied, di, deleted, failed,
                   pruneList, resp, dirs0, files0, unlinked, pruned, rmdirFailed, verified,
                   processed, lastVerify, allocs, tampered, fatal>>

\* copy_files_non_recursive: one turn of the loop over src_dir.iterdir()
CopyFlat ==
    /\ Running("flat")
    /\ pending # <<>>
    /\ pending' = Tail(pending)
    /\ LET name == Head(pending)
           item == base_dir \o <<name>>
           dst  == backup_dir \o <<name>>
       IN  IF name \in exclude \/ item \notin DOMAIN files
           THEN UNCHANGED <<files, copied, status, fatal>>
           ELSE \E err \in {"none", "io"} :
                  IF err = "io"
                  THEN /\ status' = "crashed"
                       /\ fatal' = "copy"
                       /\ UNCHANGED <<files, copied>>
                  ELSE /\ files' = copy2(files, item, dst)
                       /\ copied' = Append(copied, Record(item, dst))
                       /\ UNCHANGED <<status, fatal>>
    /\ UNCHANGED <<dirs, now, runsLeft, tampers, base_dir, args, pc, backup_dir,
                   i, exclude, walkStack, curRoot, di, deleted, failed,
                   pruneList, resp, dirs0, files0, unlinked, pruned, rmdirFailed, verified,
                   processed, lastVerify, allocs, tampered>>

\* os.walk yields the next directory, and the loop body up to the mkdir of
\* its mirror
WalkNext ==
    /\ Running("walk")
    /\ walkStack # <<>>
    /\ LET root        == Head(walkStack)
           subdirs     == SetToSeq(SubdirNames(dirs, files, root))
           target_root == backup_dir \o relative_to(root, base_dir)
       IN  /\ walkStack' = [k \in 1..Len(subdirs) |-> root \o <<subdirs[k]>>]
                               \o Tail(walkStack)
           /\ IF SkipRoot(root, base_dir, exclude)
              THEN UNCHANGED <<dirs, curRoot, pending, pc>>
              ELSE /\ dirs' = dirs \cup WithParents(backup_dir, target_root)
                   /\ curRoot' = root
                   /\ pending' = SetToSeq(FileNames(dirs, files, root))
                   /\ pc' = IF FileNames(dirs, files, root) = {} THEN "walk" ELSE "copy"
    /\ UNCHANGED <<files, now, runsLeft, tampers, base_dir, args, status,
                   backup_dir, i, exclude, copied, di, deleted, failed,
                   pruneList, resp, dirs0, files0, unlinked, pruned, rmdirFailed, verified,
                   processed, lastVerify, allocs, tampered, fatal>>

\* copy_files_recursive: one turn of the loop over files
CopyFile ==
    /\ Running("copy")
    /\ pending # <<>>
    /\ pending' = Tail(pending)
    /\ LET fname    == Head(pending)
           src_file == curRoot \o <<fname>>
           dst_file == backup_dir \o relative_to(curRoot, base_dir) \o <<fname>>
           next     == IF Tail(pending) = <<>> THEN "walk" ELSE "copy"
       IN  IF fname \in exclude
           THEN pc' = next /\ UNCHANGED <<files, copied, status, fatal>>
           ELSE \E err \in {"none", "io"} :
                  IF err = "io"
                  THEN Crash /\ fatal' = "copy" /\ UNCHANGED <<files, copied>>
                  ELSE /\ files' = copy2(files, src_file, dst_file)
                       /\ copied' = Append(copied, Record(src_file, dst_file))
                       /\ pc' = next
                       /\ UNCHANGED <<status, fatal>>
    /\ UNCHANGED <<dirs, now, runsLeft, tampers, base_dir, args, backup_dir,
                   i, exclude, walkStack, curRoot, di, deleted, failed,
                   pruneList, resp, dirs0, files0, unlinked, pruned, rmdirFailed, verified,
                   processed, lastVerify, allocs, tampered>>

\* return copied_pairs, of either copy function
CopyReturn ==
    /\ \/ Running("walk") /\ walkStack = <<>>
       \/ Running("flat") /\ pending = <<>>
    /\ pc' = "copied"
    /\ UNCHANGED <<dirs, files, now, runsLeft, tampers, base_dir, args, status,
                   backup_dir, i, exclude, walkStack, curRoot, pending, copied,
                   di, deleted, failed, pruneList, resp, dirs0, files0,
                   unlinked, pruned, rmdirFailed, verified, processed, lastVerify, allocs,
                   tampered, fatal>>

(***************************************************************************)
(* make_backup.py: the copy functions of the script without deletion.  A   *)
(* call is given the filesystem (directories, files) it starts from and    *)
(* yields the filesystem it leaves and the counts it returns.              *)
(***************************************************************************)
\* copy_files_only: the loop over src_dir.iterdir()
RECURSIVE copy_files_only_loop(_, _, _, _, _)
copy_files_only_loop(st, items, src_dir, dst_dir, exclude_names) ==
    IF items = <<>> THEN st
    ELSE LET name == Head(items)
             item == src_dir \o <<name>>
             next == IF name \in exclude_names THEN st
                     ELSE IF item \in DOMAIN st.files
                     THEN [st EXCEPT !.files = copy2(st.files, item, dst_dir \o <<name>>),
                                     !.count = st.count + 1]
                     ELSE st
         IN  copy_files_only_loop(next, Tail(items), src_dir, dst_dir, exclude_names)

copy_files_only(ds, fs, src_dir, dst_dir, exclude_names) ==
    copy_files_only_loop([dirs |-> ds, files |-> fs, count |-> 0],
                         SetToSeq(ChildNames(ds, fs, src_dir)),
                         src_dir, dst_dir, exclude_names)

\* shutil.copytree(src, dst, dirs_exist_ok=True): every directory and every
\* file at or below src gets its mirror at or below dst
copytree(ds, fs, src, dst) ==
    LET subdirs  == {d \in ds : IsPrefix(src, d)}
        subfiles == {f \in DOMAIN fs : Under(src, f)}
        mirror   == {dst \o relative_to(f, src) : f \in subfiles}
    IN  [dirs  |-> ds \cup {dst \o relative_to(d, src) : d \in subdirs},
         files |-> [p \in DOMAIN fs \cup mirror |->
                       IF p \in mirror THEN fs[src \o relative_to(p, dst)]
                       ELSE fs[p]]]

\* copy_recursive: the loop over src_dir.iterdir()
RECURSIVE copy_recursive_loop(_, _, _, _, _)
copy_recursive_loop(st, items, src_dir, dst_dir, exclude_names) ==
    IF items = <<>> THEN st
    ELSE LET name == Head(items)
             item == src_dir \o <<name>>
             dest == dst_dir \o <<name>>
             tree == copytree(st.dirs, st.files, item, dest)
             next == IF name \in exclude_names THEN st
                     ELSE IF item \in DOMAIN st.files
                     THEN [st EXCEPT !.files = copy2(st.files, item, dest),
                                     !.files_copied = st.files_copied + 1]
                     ELSE IF item \in st.dirs
                     THEN [st EXCEPT !.dirs = tree.dirs, !.files = tree.files,
                                     !.dirs_copied = st.dirs_copied + 1]
                     ELSE st
         IN  copy_recursive_loop(next, Tail(items), src_dir, dst_dir, exclude_names)

copy_recursive(ds, fs, src_dir, dst_dir, exclude_names) ==
    copy_recursive_loop([dirs |-> ds, files |-> fs,
                         files_copied |-> 0, dirs_copied |-> 0],
                        SetToSeq(ChildNames(ds, fs, src_dir)),
                        src_dir, dst_dir, exclude_names)

(***************************************************************************)
(* main(): after the copy, confirmation, deletion and pruning.             *)
(***************************************************************************)
\* a main without the early return on an empty copy list
after_copy_no_return(n, delete, force) ==
    IF delete THEN (IF ~force THEN "confirm" ELSE "deleting")
    ELSE "exit_kept"

\* main after the copy: n = len(copied_pairs), args.delete and args.force
\* decide where it goes
after_copy(n, delete, force) ==
    IF n = 0 THEN "exit_nothing"
    ELSE IF delete THEN (IF ~force THEN "confirm" ELSE "deleting")
    ELSE "exit_kept"

AfterCopy ==
    /\ Running("copied")
    /\ LET todo == after_copy(Len(copied), args.delete, args.force)
       IN  CASE todo = "confirm"  -> pc' = "confirm" /\ UNCHANGED <<status, di>>
             [] todo = "deleting" -> pc' = "deleting" /\ di' = 1 /\ status' = status
             [] OTHER             -> Finish(todo) /\ di' = di
    /\ UNCHANGED <<dirs, files, now, runsLeft, tampers, base_dir, args,
                   backup_dir, i, exclude, walkStack, curRoot, pending, copied,
                   deleted, failed, pruneList, resp, dirs0, files0, unlinked,
                   pruned, rmdirFailed, verified, processed, lastVerify, allocs, tampered,
                   fatal>>

\* a prompt that goes on unless the answer is "n"
ConfirmedUnlessNo(answer) == Lower(Strip(answer)) # <<"n">>

\* resp = input(...).strip().lower(); the deletion goes on iff resp == "y"
Confirmed(answer) == Lower(Strip(answer)) = <<"y">>

Confirm ==
    /\ Running("confirm")
    /\ \E answer \in Answers :
          /\ resp' = answer
          /\ IF Confirmed(answer)
             THEN pc' = "deleting" /\ di' = 1 /\ status' = status
             ELSE Finish("exit_declined") /\ di' = di
    /\ UNCHANGED <<dirs, files, now, runsLeft, tampers, base_dir, args,
                   backup_dir, i, exclude, walkStack, curRoot, pending, copied,
                   deleted, failed, pruneList, dirs0, files0, unlinked, pruned, rmdirFailed,
                   verified, processed, lastVerify, allocs, tampered, fatal>>

\* what a call of verify_pair saw and returned
VerifyRecord(src, dst, use_hash, err, result) ==
    LET both == src \in DOMAIN files /\ dst \in DOMAIN files
    IN  [src |-> src, dst |-> dst, use_hash |-> use_hash, err |-> err,
         both_exist |-> both,
         same_size |-> both /\ Len(files[src]) = Len(files[dst]),
         same_content |-> both /\ files[src] = files[dst],
         result |-> result]

\* a loop body that unlinks without looking at the verification
delete_unverified(ok, unlink_raises) ==
    IF unlink_raises THEN "delete_error" ELSE "deleted"

\* a loop body without the try around src.unlink()
delete_no_try(ok, unlink_raises) ==
    IF ~ok THEN "verification_failed"
    ELSE IF unlink_raises THEN "raise" ELSE "deleted"

\* a loop body that reports every failure as a failed unlink
delete_one_reason(ok, unlink_raises) ==
    IF ~ok \/ unlink_raises THEN "delete_error" ELSE "deleted"

\* the loop body of delete_backed_files after the exclusion check: ok is
\* the result of verify_pair, unlink_raises says whether src.unlink() raises
delete_decision(ok, unlink_raises) ==
    IF ~ok THEN "verification_failed"
    ELSE IF unlink_raises THEN "delete_error" ELSE "deleted"

\* a list that takes its new entry at the front
list_insert_front(l, x) == <<x>> \o l

\* deleted.append(...), failed.append(...)
list_append(l, x) == Append(l, x)

\* an unlink of the copy instead of the original
unlink_copy(src, dst) == dst

\* src.unlink(): of a record, the path the loop removes
unlink_target(src, dst) == src

\* delete_backed_files: one turn of the loop over copied_pairs.  verr is the
\* fault verify_pair meets.
DeleteStep ==
    /\ Running("deleting")
    /\ di <= Len(copied)
    /\ LET src == copied[di].src
           dst == copied[di].dst
       IN  IF DeleteExcluded(src, exclude)
           THEN /\ failed' = list_append(failed, <<src, "excluded">>)
                /\ di' = di + 1
                /\ processed' = Append(processed, di)
                /\ UNCHANGED <<files, deleted, unlinked, verified, lastVerify,
                               status>>
           ELSE \E verr \in {"none", "stat", "read"} : \E uerr \in BOOLEAN :
                  LET ok   == verify_pair(dirs, files, src, dst, args.hash, verr)
                      todo == delete_decision(ok, uerr)
                  IN  /\ lastVerify' = VerifyRecord(src, dst, args.hash, verr, ok)
                      /\ verified' = IF ok THEN verified \cup {di} ELSE verified
                      /\ CASE todo = "raise" ->
                                /\ status' = "crashed"
                                /\ UNCHANGED <<files, deleted, unlinked, failed,
                                               di, processed>>
                           [] todo = "deleted" ->
                                /\ files' = RemoveFile(files, unlink_target(src, dst))
                                /\ deleted' = list_append(deleted, src)
                                /\ unlinked' = unlinked \cup {unlink_target(src, dst)}
                                /\ di' = di + 1
                                /\ processed' = Append(processed, di)
                                /\ UNCHANGED <<failed, status>>
                           [] OTHER ->
                                /\ failed' = list_append(failed,
                                      <<src, IF todo = "delete_error"
                                             THEN "delete_error:EACCES" ELSE todo>>)
                                /\ di' = di + 1
                                /\ processed' = Append(processed, di)
                                /\ UNCHANGED <<files, deleted, unlinked, status>>
    /\ UNCHANGED <<dirs, now, runsLeft, tampers, base_dir, args, pc,
                   backup_dir, i, exclude, walkStack, curRoot, pending, copied,
                   pruneList, resp, dirs0, files0, pruned, rmdirFailed, allocs, tampered,
                   fatal>>

\* the end of the loop: if remove_empty_dirs, the candidates, deepest first
DeleteLoopEnd ==
    /\ Running("deleting")
    /\ di > Len(copied)
    /\ IF args.remove_empty_dirs
       THEN /\ pruneList' = SortDeepestFirst({Parent(p) : p \in Range(deleted)})
            /\ pc' = "pruning"
            /\ di' = 1
            /\ status' = status
       ELSE Finish("exit_deleted") /\ UNCHANGED <<pruneList, di>>
    /\ UNCHANGED <<dirs, files, now, runsLeft, tampers, base_dir, args,
                   backup_dir, i, exclude, walkStack, curRoot, pending, copied,
                   deleted, failed, resp, dirs0, files0, unlinked, pruned, rmdirFailed,
                   verified, processed, lastVerify, allocs, tampered, fatal>>

\* one turn of the loop over dirs; rerr says whether iterdir or rmdir raises
PruneStep ==
    /\ Running("pruning")
    /\ di <= Len(pruneList)
    /\ di' = di + 1
    /\ LET d == pruneList[di]
       IN  \E rerr \in BOOLEAN :
             /\ rmdirFailed' = IF rerr THEN rmdirFailed \cup {d} ELSE rmdirFailed
             /\ IF ~rerr /\ d \in dirs /\ ChildNames(dirs, files, d) = {}
                THEN dirs' = dirs \ {d} /\ pruned' = pruned \cup {d}
                ELSE UNCHANGED <<dirs, pruned>>
    /\ UNCHANGED <<files, now, runsLeft, tampers, base_dir, args, status, pc,
                   backup_dir, i, exclude, walkStack, curRoot, pending, copied,
                   deleted, failed, pruneList, resp, dirs0, files0, unlinked,
                   verified, processed, lastVerify, allocs, tampered, fatal>>

\* return deleted, failed, after the pruning
PruneEnd ==
    /\ Running("pruning")
    /\ di > Len(pruneList)
    /\ Finish("exit_deleted")
    /\ UNCHANGED <<dirs, files, now, runsLeft, tampers, base_dir, args,
                   backup_dir, i, exclude, walkStack, curRoot, pending, copied,
                   di, deleted, failed, pruneList, resp, dirs0, files0,
                   unlinked, pruned, rmdirFailed, verified, processed, lastVerify, allocs,
                   tampered, fatal>>

Next ==
    \/ StartRun
    \/ Tick
    \/ Interrupt
    \/ Tamper
    \/ AllocTimestamp
    \/ AllocProbe
    \/ BeginCopy
    \/ CopyFlat
    \/ WalkNext
    \/ CopyFile
    \/ CopyReturn
    \/ AfterCopy
    \/ Confirm
    \/ DeleteStep
    \/ DeleteLoopEnd
    \/ PruneStep
    \/ PruneEnd

\* one invocation of the script
Spec == Init /\ [][Next]_vars

\* the allocator on its own: invocations that do not get past the allocation
NextRuns ==
    \/ StartRun
    \/ Tick
    \/ Interrupt
    \/ AllocTimestamp
    \/ AllocProbe

SpecRuns == InitRuns /\ [][NextRuns]_vars

\* the allocator on its own, where a process inside the while True of the
\* fallback goes on to its next turn
SpecRunsFair == SpecRuns /\ WF_vars(AllocProbe)

(***************************************************************************)
(* Properties.                                                             *)
(***************************************************************************)
ScriptPath == base_dir \o <<script_name>>

CopyPhase == {"alloc", "probe", "setup", "walk", "copy", "flat", "copied"}

DeletePhase == {"deleting", "pruning", "exit_deleted"}

VerifiedSources == {copied[k].src : k \in verified}

\* every file and directory of the start of the run is still there, unchanged
SourceUntouched ==
    /\ dirs0 \subseteq dirs
    /\ \A p \in DOMAIN files0 : p \in DOMAIN files /\ files[p] = files0[p]

\* the backup directory and every copy made so far are in place
BackupInPlace ==
    backup_dir # NoPath =>
        /\ backup_dir \in dirs
        /\ \A k \in 1..Len(copied) :
              /\ copied[k].dst \in DOMAIN files
              /\ files[copied[k].dst] = files0[copied[k].src]

NothingDeleted == unlinked = {} /\ pruned = {} /\ deleted = <<>>

\* C1: a source file is unlinked, and listed in deleted, only if it is the
\* source of a record for which verify_pair returned True in the same turn
\* of the loop; no other file of the source root disappears through the run.
DeleteOnlyVerified ==
    /\ unlinked \subseteq VerifiedSources
    /\ Range(deleted) \subseteq VerifiedSources
    /\ \A p \in DOMAIN files0 \ DOMAIN files : p \in unlinked \cup tampered
    /\ (processed # <<>> /\ deleted # <<>>
          /\ copied[processed[Len(processed)]].src = deleted[Len(deleted)])
       => (lastVerify.src = deleted[Len(deleted)] /\ lastVerify.result)

\* C1 witness: one record was deleted and another failed verification and
\* kept its source
DeleteOnlyVerifiedWitness ==
    /\ deleted # <<>>
    /\ \E k \in 1..Len(failed) :
          failed[k][2] = "verification_failed" /\ failed[k][1] \in DOMAIN files

\* C2: whatever the flags, the script and the backup directory of the run
\* (and everything below it) are no source of a record, are not unlinked
\* and not removed, and both are still there.
ExclusionAbsolute ==
    backup_dir # NoPath =>
        /\ \A k \in 1..Len(copied) :
              copied[k].src # ScriptPath /\ ~IsPrefix(backup_dir, copied[k].src)
        /\ \A p \in unlinked \cup pruned \cup Range(deleted) :
              p # ScriptPath /\ ~IsPrefix(backup_dir, p)
        /\ ScriptPath \in DOMAIN files
        /\ backup_dir \in dirs

\* C2 witness: a run with every flag set has deleted files and removed a
\* directory
ExclusionAbsoluteWitness ==
    /\ pc = "exit_deleted"
    /\ args.recursive /\ args.delete /\ args.hash
    /\ args.remove_empty_dirs /\ args.force
    /\ deleted # <<>>
    /\ pruned # {}

\* C3: nothing is deleted or pruned before the copy phase has returned, and
\* a run whose copy phase is terminated or meets an I/O error has stopped
\* with the source root as it was and the partial backup in place.
CopyBeforeDelete ==
    /\ pc \in CopyPhase \cup {"start", "confirm"} => NothingDeleted
    /\ fatal = "copy" => status = "crashed"
    /\ (fatal = "copy" \/ status = "killed") =>
          /\ pc \in CopyPhase
          /\ NothingDeleted
          /\ SourceUntouched
          /\ BackupInPlace

\* C3 witness: the copy failed after a first file had been copied
CopyBeforeDeleteWitness ==
    /\ fatal = "copy"
    /\ status = "crashed"
    /\ copied # <<>>

\* C4 (as stated): after a successful copy phase every file that was below
\* the source root at the start and whose name is not excluded has a copy
\* of the same name and content below the backup root.
EveryFileCopied ==
    pc = "copied" =>
        \A p \in DOMAIN files0 :
            (Under(base_dir, p) /\ Name(p) \notin exclude) =>
                \E q \in DOMAIN files :
                    /\ Under(backup_dir, q)
                    /\ Name(q) = Name(p)
                    /\ files[q] = files0[p]

\* the files a run is to copy: the direct children of the source root in
\* non-recursive mode, in recursive mode the files none of whose segments
\* relative to the source root is excluded
InScope(p) ==
    /\ Under(base_dir, p)
    /\ \A k \in (Len(base_dir) + 1)..Len(p) : p[k] \notin exclude
    /\ args.recursive \/ Len(p) = Len(base_dir) + 1

Mirror(p) == backup_dir \o SubSeq(p, Len(base_dir) + 1, Len(p))

\* C4 (amended): after a successful copy phase every file of the start of
\* the run that is in the scope of the run has a copy with the same content
\* at the same relative path below the backup root.
EveryFileInScopeCopied ==
    pc = "copied" =>
        \A p \in DOMAIN files0 :
            InScope(p) =>
                /\ Mirror(p) \in DOMAIN files
                /\ files[Mirror(p)] = files0[p]

\* C4 witness: a recursive copy has returned with a file of a subdirectory
\* copied and another file left out
EveryFileInScopeCopiedWitness ==
    /\ pc = "copied"
    /\ args.recursive
    /\ \E k \in 1..Len(copied) :
          /\ Len(copied[k].src) > Len(base_dir) + 1
          /\ files[copied[k].dst] = files0[copied[k].src]
    /\ \E p \in DOMAIN files0 : p # ScriptPath /\ ~InScope(p)

\* the answers that confirm
YesAnswers == {<<"y">>, <<" ", "Y">>}

\* C5: the deletion phase is entered only with delete set and force set or
\* the answer yes; a run that ends with delete unset, or with delete set,
\* force unset and another answer, has deleted and pruned nothing and
\* leaves the originals and the backup as they were.
DeletionGated ==
    /\ pc \in DeletePhase =>
          args.delete /\ (args.force \/ resp \in YesAnswers)
    /\ (status = "done"
          /\ (~args.delete \/ (~args.force /\ resp \notin YesAnswers)))
       => (NothingDeleted /\ SourceUntouched /\ BackupInPlace)

\* C5 witness: deletion was asked for, the answer was n, the run has ended
DeletionGatedWitness ==
    /\ status = "done"
    /\ args.delete /\ ~args.force
    /\ resp = <<"n">>
    /\ copied # <<>>
    /\ SourceUntouched

\* C6: the deletion loop never ends the run; it handles the records in
\* order, one entry in deleted or failed per record handled, a fault in
\* verify_pair makes that record a verification failure, and when the loop
\* is over every record has been handled.
PartialFailureIsolation ==
    /\ status = "crashed" => pc \notin DeletePhase
    /\ Len(deleted) + Len(failed) = Len(processed)
    /\ pc = "deleting" => processed = [k \in 1..(di - 1) |-> k]
    /\ pc \in {"pruning", "exit_deleted"} =>
          processed = [k \in 1..Len(copied) |-> k]
    /\ (lastVerify.src # NoPath
          /\ (lastVerify.err = "stat"
                \/ (lastVerify.err = "read" /\ lastVerify.use_hash)))
       => ~lastVerify.result

\* C6 witness: the unlink of the first record failed, a later record was
\* deleted, and the function has returned
PartialFailureIsolationWitness ==
    /\ pc = "exit_deleted"
    /\ Len(copied) >= 2
    /\ failed # <<>>
    /\ failed[1] = <<copied[1].src, "delete_error:EACCES">>
    /\ \E k \in 2..Len(copied) : copied[k].src \in Range(deleted)

\* C7: every allocation returns a directory that did not exist before the
\* call; two successive allocations return different directories, and the
\* second of two allocations of the same second comes from the fallback and
\* differs from every backup directory that was there.
AllocationsDistinct ==
    /\ \A k \in 1..Len(allocs) :
          ~allocs[k].existed /\ allocs[k].dir \notin allocs[k].before
    /\ \A k \in 2..Len(allocs) :
          /\ allocs[k].dir # allocs[k - 1].dir
          /\ allocs[k].at = allocs[k - 1].at => allocs[k].fallback
          /\ \A j \in 1..(k - 1) :
                allocs[j].dir \in allocs[k].before => allocs[k].dir # allocs[j].dir

\* C7 witness: two allocations in the same second, the second by fallback
AllocationsDistinctWitness ==
    /\ Len(allocs) >= 2
    /\ allocs[2].at = allocs[1].at
    /\ allocs[2].fallback
    /\ allocs[1].dir \in dirs /\ allocs[2].dir \in dirs

\* C8: once a mkdir of the allocation has been denied, the run has stopped
\* in the allocation with no backup directory, no record, no copy and no
\* deletion.
AllocFailureAborts ==
    fatal = "mkdir" =>
        /\ status = "crashed"
        /\ pc \in {"alloc", "probe"}
        /\ backup_dir = NoPath
        /\ copied = <<>>
        /\ NothingDeleted
        /\ dirs = dirs0
        /\ files = files0

\* C8 witness: the mkdir was denied during the numbered fallback
AllocFailureAbortsWitness ==
    /\ fatal = "mkdir"
    /\ pc = "probe"
    /\ i >= 1
    /\ status = "crashed"

\* C9: without an I/O fault, verify_pair on two existing files of equal
\* size and different content returns True without use_hash and False with
\* it; on files of different sizes, or with a file missing, it returns
\* False in both modes.  Stated of the calls the deletion loop makes and of
\* every pair of paths of the current filesystem.
VerifyPairModes ==
    /\ lastVerify.src # NoPath =>
          /\ (lastVerify.both_exist /\ lastVerify.same_size
                /\ ~lastVerify.same_content /\ lastVerify.err = "none")
             => (lastVerify.result = ~lastVerify.use_hash)
          /\ (~lastVerify.both_exist \/ ~lastVerify.same_size)
             => ~lastVerify.result
    /\ \A s \in DOMAIN files : \A d \in DOMAIN files :
          /\ (Len(files[s]) = Len(files[d]) /\ files[s] # files[d]) =>
                /\ verify_pair(dirs, files, s, d, FALSE, "none")
                /\ ~verify_pair(dirs, files, s, d, TRUE, "none")
          /\ Len(files[s]) # Len(files[d]) =>
                \A h \in BOOLEAN : ~verify_pair(dirs, files, s, d, h, "none")
    /\ \A k \in 1..Len(copied) : \A h \in BOOLEAN :
          (copied[k].src \notin DOMAIN files \/ copied[k].dst \notin DOMAIN files)
             => ~verify_pair(dirs, files, copied[k].src, copied[k].dst, h, "none")

\* C9 witness: the loop verified by size a copy of equal size and different
\* content, got True, and deleted the source
VerifyPairModesWitness ==
    /\ lastVerify.src # NoPath
    /\ lastVerify.both_exist /\ lastVerify.same_size
    /\ ~lastVerify.same_content
    /\ ~lastVerify.use_hash
    /\ lastVerify.result
    /\ lastVerify.src \in unlinked

InExcludedDir(p, root) ==
    \E k \in (Len(root) + 1)..(Len(p) - 1) : p[k] \in exclude

\* C10: in recursive mode no record has a source in a directory with an
\* excluded segment, nothing below the backup root mirrors such a
\* directory, nothing in it is unlinked or removed, and its files are as
\* they were.
ExcludedSubtreeSkipped ==
    (args.recursive /\ backup_dir # NoPath /\ exclude # {}) =>
        /\ \A k \in 1..Len(copied) : ~InExcludedDir(copied[k].src, base_dir)
        /\ \A q \in dirs \cup DOMAIN files :
              Under(backup_dir, q) =>
                  \A k \in (Len(backup_dir) + 1)..Len(q) : q[k] \notin exclude
        /\ \A p \in unlinked \cup pruned :
              \A k \in (Len(base_dir) + 1)..Len(p) : p[k] \notin exclude
        /\ \A p \in DOMAIN files0 :
              (Under(base_dir, p) /\ InExcludedDir(p, base_dir)) =>
                  p \in DOMAIN files /\ files[p] = files0[p]

\* C10 witness: a recursive run whose backup directory has the name of a
\* directory two levels down has deleted files and left that subtree alone
ExcludedSubtreeSkippedWitness ==
    /\ pc = "exit_deleted"
    /\ args.recursive
    /\ deleted # <<>>
    /\ \E p \in DOMAIN files :
          /\ Under(base_dir, p)
          /\ ~Under(backup_dir, p)
          /\ Len(p) >= Len(base_dir) + 4
          /\ p[Len(base_dir) + 2] = Name(backup_dir)

\* what lies at or below the backup directory of the run
BackupDirsOf(ds) == {d \in ds : IsPrefix(backup_dir, d)}

BackupFilesOf(fs) ==
    [p \in {q \in DOMAIN fs : IsPrefix(backup_dir, q)} |-> fs[p]]

\* a step of delete_backed_files (the loop or the pruning), as opposed to a
\* step of another program
DeletionPhaseStep ==
    status = "running" /\ pc \in {"deleting", "pruning"} /\ tampers' = tampers

CopyPhaseStep ==
    status = "running" /\ pc \in {"setup", "walk", "copy", "flat"}

\* C11: a step of the deletion phase (the loop over the records or the
\* pruning) leaves the backup directory and every file and directory below
\* it exactly as they were; a step of the copy phase only adds entries below
\* the backup directory and changes none that is there.
BackupRootFrame ==
    [][/\ DeletionPhaseStep =>
            /\ BackupDirsOf(dirs') = BackupDirsOf(dirs)
            /\ BackupFilesOf(files') = BackupFilesOf(files)
       /\ CopyPhaseStep =>
            /\ BackupDirsOf(dirs) \subseteq dirs'
            /\ \A p \in DOMAIN BackupFilesOf(files) :
                  p \in DOMAIN files' /\ files'[p] = files[p]]_vars

\* C11 witness: deletion and pruning have run to the end, a file was
\* unlinked and a directory removed, and every copy is in the backup
BackupRootFrameWitness ==
    /\ pc = "exit_deleted"
    /\ tampers = 0
    /\ unlinked # {}
    /\ pruned # {}
    /\ backup_dir \in dirs
    /\ \A k \in 1..Len(copied) :
          copied[k].dst \in DOMAIN files /\ files[copied[k].dst] = files0[copied[k].src]

\* the record the loop handled last went through verify_pair and failed it
LastVerificationFailed ==
    /\ pc \in DeletePhase
    /\ processed # <<>>
    /\ lastVerify.src = copied[processed[Len(processed)]].src
    /\ ~lastVerify.result

\* the cause of a failed verification, in the words of the specification
SpecificReason(v) ==
    IF ~v.both_exist THEN "missing"
    ELSE IF v.err # "none" THEN "read_error"
    ELSE IF ~v.same_size THEN "size_mismatch"
    ELSE "digest_mismatch"

\* the run has not unlinked p, and p is as it was unless another program
\* touched it
LeftUntouched(p) ==
    /\ p \notin unlinked
    /\ p \in tampered \/ (p \in DOMAIN files /\ files[p] = files0[p])

NothingToDoIsTerminal ==
    (status # "idle" /\ copied = <<>>) =>
        /\ pc \in CopyPhase \cup {"exit_nothing"}
        /\ pc = "exit_nothing" => status = "done"
        /\ resp = <<>>
        /\ lastVerify = NoVerify
        /\ processed = <<>>
        /\ failed = <<>>
        /\ pruneList = <<>>
        /\ NothingDeleted
        /\ rmdirFailed = {}

\* C13 witness: a run with delete, force and pruning all set found nothing to
\* copy and has ended
NothingToDoIsTerminalWitness ==
    /\ pc = "exit_nothing"
    /\ status = "done"
    /\ copied = <<>>
    /\ args.delete /\ args.force /\ args.remove_empty_dirs /\ args.recursive

\* the k-th name of the numbered fallback: baseName_k in the source root
ProbeName(k) == base_dir \o <<base_name \o "_" \o ToString(k)>>

\* the fallback probes in increasing order and returns the first free name
ProbeOrder ==
    /\ \A n \in 1..Len(allocs) :
          LET a == allocs[n]
          IN  /\ a.fallback =>
                    /\ TimestampCandidate(base_dir, base_name, a.at) \in a.before
                    /\ \E k \in 1..MaxProbe :
                          /\ a.dir = ProbeName(k)
                          /\ a.dir \notin a.before
                          /\ \A j \in 1..(k - 1) : ProbeName(j) \in a.before
              /\ IF n < Len(allocs)
                 THEN allocs[n + 1].before = a.before \cup {a.dir}
                 ELSE dirs = a.before \cup {a.dir}
    /\ Running("probe") =>
          /\ i >= 1
          /\ backup_dir = NoPath
          /\ TimestampCandidate(base_dir, base_name, now) \in dirs
          /\ \A j \in 1..(i - 1) : ProbeName(j) \in dirs

\* the probe is running and some name from the current index on is free
ProbeCanSucceed ==
    Running("probe") /\ \E k \in i..MaxProbe : ProbeName(k) \notin dirs

\* the probe is over: a directory was created, or the process was stopped
\* or met another error than "already exists"
ProbeOver ==
    \/ pc = "setup" /\ backup_dir \in dirs
    \/ status \in {"killed", "crashed"}

\* C14: when the timestamp candidate exists, the allocator probes
\* baseName_1, baseName_2, ... in increasing order and creates exactly one
\* directory, baseName_k for the smallest k >= 1 that did not exist; and a
\* probe for which such a k exists comes to an end.
ProbeFirstFree == []ProbeOrder /\ (ProbeCanSucceed ~> ProbeOver)

\* C14 witness: an allocation that went past baseName_1, which existed, and
\* created baseName_2
ProbeFirstFreeWitness ==
    /\ pc = "setup"
    /\ allocs # <<>>
    /\ allocs[Len(allocs)].fallback
    /\ allocs[Len(allocs)].dir = ProbeName(2)
    /\ ProbeName(1) \in allocs[Len(allocs)].before
    /\ backup_dir = ProbeName(2)

\* the candidates of the pruning and their order
PruneOrder ==
    /\ ~args.remove_empty_dirs => (pruneList = <<>> /\ pruned = {})
    /\ pc \notin {"pruning", "exit_deleted"} => (pruneList = <<>> /\ pruned = {})
    /\ pc = "pruning" => status = "running"
    /\ pc = "exit_deleted" => status = "done"
    /\ pruneList # <<>> =>
          /\ Len(processed) = Len(copied)
          /\ Range(pruneList) = {Parent(p) : p \in Range(deleted)}
          /\ Cardinality(Range(pruneList)) = Len(pruneList)
          /\ \A a, b \in 1..Len(pruneList) :
                /\ a < b => Len(pruneList[a]) >= Len(pruneList[b])
                /\ Under(pruneList[a], pruneList[b]) => b < a
          /\ pruned \subseteq {pruneList[k] : k \in 1..(di - 1)}
    /\ \A d \in pruned : \A p \in dirs \cup DOMAIN files : ~IsPrefix(d, p)

\* a step that removes a directory removes the candidate whose turn it is,
\* which at that moment is a directory and has no entry
PruneRemoval ==
    pruned' # pruned =>
        /\ Running("pruning")
        /\ di <= Len(pruneList)
        /\ LET d == pruneList[di]
           IN  /\ d \in dirs
               /\ ChildNames(dirs, files, d) = {}
               /\ pruned' = pruned \cup {d}
               /\ dirs' = dirs \ {d}
               /\ files' = files
               /\ status' = "running"

\* a turn of the pruning whose removal raises changes nothing and the run
\* goes on
PruneFailureSwallowed ==
    rmdirFailed' # rmdirFailed =>
        /\ dirs' = dirs /\ files' = files
        /\ status' = "running" /\ pc' = "pruning" /\ di' = di + 1

\* C15: the pruning starts only when every record has been processed; its
\* candidates are exactly the parents of the deleted files, visited in
\* non-increasing depth (a directory before each of its ancestors); a
\* directory is removed only if at that moment it exists, is a directory and
\* is empty; and a removal that raises does not stop the run.
PruneDiscipline ==
    []PruneOrder /\ [][PruneRemoval /\ PruneFailureSwallowed]_vars

\* C15 witness: two candidates of different depth, the deeper one removed,
\* the other one kept because it is not empty
PruneDisciplineWitness ==
    /\ pc = "exit_deleted"
    /\ Len(pruneList) = 2
    /\ Len(pruneList[1]) > Len(pruneList[2])
    /\ pruned = {pruneList[1]}
    /\ rmdirFailed = {}
    /\ pruneList[2] \in dirs
    /\ ChildNames(dirs, files, pruneList[2]) # {}

\* d is a directory below the source root that had entries when the run
\* started, all of which the run has taken away: its files unlinked, its
\* subdirectories removed by the pruning
EmptiedByRun(d) ==
    /\ d \in dirs0
    /\ Under(base_dir, d)
    /\ ChildNames(dirs0, files0, d) # {}
    /\ \A n \in ChildNames(dirs0, files0, d) :
          LET c == d \o <<n>>
          IN  \/ c \in DOMAIN files0 /\ c \in unlinked
              \/ c \in dirs0 /\ c \in pruned

\* C16: with --remove-empty-dirs, when deletion and pruning have finished
\* (no removal having raised), no directory below the source root that this
\* run emptied still exists.
EmptiedDirsRemoved ==
    (pc = "exit_deleted" /\ status = "done" /\ args.remove_empty_dirs
        /\ rmdirFailed = {})
    => \A d \in dirs0 : EmptiedByRun(d) => d \notin dirs

\* the regular files directly in the source root at the start of the run
\* whose name is neither the script's nor the backup directory's
TopLevelFiles ==
    {base_dir \o <<n>> : n \in FileNames(dirs0, files0, base_dir)
                                 \ {script_name, Name(backup_dir)}}

\* C17: in a non-recursive run every record is a regular file directly in
\* the source root with a name that is not excluded, copied under the same
\* name directly in the backup directory; no directory is descended or
\* created in the backup, so no record, copy or deletion refers to a file
\* inside a subdirectory; and when the copy returns, the records are exactly
\* those files.
FlatCopyTopLevelOnly ==
    (status # "idle" /\ ~args.recursive /\ backup_dir # NoPath) =>
        /\ \A k \in 1..Len(copied) :
              /\ copied[k].src \in TopLevelFiles
              /\ copied[k].dst = backup_dir \o <<Name(copied[k].src)>>
        /\ walkStack = <<>> /\ curRoot = NoPath
        /\ BackupDirsOf(dirs) = {backup_dir}
        /\ DOMAIN BackupFilesOf(files) \subseteq {copied[k].dst : k \in 1..Len(copied)}
        /\ \A p \in unlinked \cup Range(deleted) : Parent(p) = base_dir
        /\ \A p \in DOMAIN files0 :
              Len(p) > Len(base_dir) + 1 =>
                  p \in DOMAIN files /\ files[p] = files0[p]
        /\ pc \notin CopyPhase \ {"copied"} =>
              {copied[k].src : k \in 1..Len(copied)} = TopLevelFiles

\* C17 witness: a non-recursive run with deletion copied and deleted a.txt
\* and left sub/b.txt where it was, with no copy of it
FlatCopyTopLevelOnlyWitness ==
    /\ pc = "exit_deleted"
    /\ ~args.recursive
    /\ Len(copied) = 1
    /\ deleted = <<base_dir \o <<"a.txt">>>>
    /\ base_dir \o <<"sub", "b.txt">> \in DOMAIN files
    /\ backup_dir \o <<"a.txt">> \in DOMAIN files
    /\ backup_dir \o <<"sub", "b.txt">> \notin DOMAIN files

\* the files below the backup directory, by their path relative to it
RelativeBackup(fs) ==
    [r \in {relative_to(p, backup_dir) : p \in DOMAIN BackupFilesOf(fs)} |->
        fs[backup_dir \o r]]

\* what make_backup.py copies from the filesystem the run started from into
\* the same backup directory with the same exclude set
MakeBackupResult ==
    IF args.recursive
    THEN copy_recursive(dirs0 \cup {backup_dir}, files0, base_dir, backup_dir, exclude)
    ELSE copy_files_only(dirs0 \cup {backup_dir}, files0, base_dir, backup_dir, exclude)

\* C18: for every source tree, exclude set and value of the recursive flag,
\* when the copy of final_backup.py has returned the files below the backup
\* directory are, path by path and content by content, the files the copy
\* function of make_backup.py puts there.
CopyVariantsAgree ==
    pc = "copied" => RelativeBackup(files) = RelativeBackup(MakeBackupResult.files)

\* C19: wherever the source root lies, no record of the copy phase is
\* rejected by delete_backed_files with reason "excluded"; and a finished
\* deletion in which no verification and no unlink failed has deleted the
\* source of every record and has an empty failure list.
ExclusionChecksAgree ==
    pc \in DeletePhase =>
        /\ \A k \in 1..Len(failed) : failed[k][2] # "excluded"
        /\ (pc = "exit_deleted"
               /\ \A k \in 1..Len(failed) :
                     failed[k][2] \notin {"verification_failed", "delete_error:EACCES"})
           => /\ failed = <<>>
              /\ deleted = [k \in 1..Len(copied) |-> copied[k].src]

\* the sources of the records, in record order, and of the failure list
RecordSources == [k \in 1..Len(copied) |-> copied[k].src]

FailedSources == [k \in 1..Len(failed) |-> failed[k][1]]

\* the entries of s come in the order in which they come in RecordSources
InRecordOrder(s) ==
    \A a, b \in 1..Len(s) :
        a < b => \E m, n \in 1..Len(copied) :
                    m < n /\ RecordSources[m] = s[a] /\ RecordSources[n] = s[b]

\* C20: when delete_backed_files returns, the source of every record is in
\* exactly one of deleted and failed, so that len(deleted) + len(failed) =
\* len(records); both lists keep the order of the records; and the sources
\* in failed have not been unlinked by the call.  While the loop runs the
\* same holds of the records handled so far.
EveryRecordAccounted ==
    pc \in DeletePhase =>
        /\ Len(deleted) + Len(failed) = Len(processed)
        /\ pc \in {"pruning", "exit_deleted"} => Len(processed) = Len(copied)
        /\ \A k \in 1..Len(processed) :
              (RecordSources[k] \in Range(deleted)) # (RecordSources[k] \in Range(FailedSources))
        /\ Range(deleted) \cup Range(FailedSources)
              = {RecordSources[k] : k \in 1..Len(processed)}
        /\ InRecordOrder(deleted)
        /\ InRecordOrder(FailedSources)
        /\ unlinked = Range(deleted)
        /\ \A p \in Range(FailedSources) : p \notin unlinked

\* C20 witness: of two records the first failed and kept its source, the
\* second was deleted, and delete_backed_files has returned
EveryRecordAccountedWitness ==
    /\ pc = "exit_deleted"
    /\ Len(copied) = 2
    /\ FailedSources = <<copied[1].src>>
    /\ deleted = <<copied[2].src>>
    /\ copied[1].src \in DOMAIN files
    /\ copied[2].src \notin DOMAIN files


====
